---- MODULE Spec2Model ----
(***************************************************************************)
(* The component storage core of ferrumc's async ECS                       *)
(* (crates/async_ecs/src/component.rs): a DashMap from component type to   *)
(* a sparse set of tokio RwLock cells, and the typed guards ComponentRef / *)
(* ComponentRefMut handed out by get / get_mut.                            *)
(*                                                                         *)
(* Memory is modelled by location: a guard is a pointer to the dense slot  *)
(* the lock lived in when it was acquired (the transmute at lines 86-88    *)
(* and 105-107 detaches it from the DashMap borrow), so a guard can        *)
(* outlive the cell.  What a stale guard then touches is undefined         *)
(* behaviour; the model lets it either hit whatever cell now lives in that *)
(* slot or hit nothing.                                                    *)
(***************************************************************************)
EXTENDS Integers, Sequences, FiniteSets, TLC

\* ---------------------------------------------------------------- bounds
NumTasks == 2
MaxEntity == 1
\* The import directory: at most MaxRegions region files of at most MaxChunks
\* chunks each.
MaxRegions == 2
MaxChunks == 3

Tasks == 1..NumTasks
Entities == 0..MaxEntity
\* Component values are opaque data: two distinct Positions, named after the
\* ones the tests and the spec's scenario use (x=0,y=0 and x=1,y=2).
Values == {"p0", "p5"}
\* The component types of the source (component.rs:129, 136).
Types == {"Position", "Velocity"}
\* Two distinct Velocities.
Velocities == {"v0", "v3"}
\* The concrete type of a component value.
TypeOf(v) == IF v \in Values THEN "Position" ELSE "Velocity"
\* insert<T>(entity_id, component: T): the values a caller can pass for T.
ValuesOf(T) == {v \in Values \cup Velocities : TypeOf(v) = T}
\* The entity the tests use (component.rs:146).
TestEntity == 0
\* DashMap spreads its keys over shards; each shard has one lock.
Shards == {1, 2}

\* tokio's RwLock is a semaphore of MAX_READS permits: a reader takes one,
\* a writer takes them all.  Any number above the number of guards that can
\* exist behaves like the real constant.
MaxReads == NumTasks + 1

VARIABLES
    storages,   \* TypeId -> sparse set (exists, sparse index, dense slots)
    shardOf,    \* TypeId -> the DashMap shard its key hashes to
    guards,     \* task -> the ComponentRef / ComponentRefMut it holds
    pc,         \* task -> where it is: idle, suspended in get, blocked in insert
    shadow,     \* (type, entity) -> what a sound store would hold there
    ub,         \* a stale guard has touched a cell that is not its own
    scope,      \* which types this run uses, and whether hist is recorded
    hist,       \* the last completed operation (recorded only when scope.hist)
    imp         \* the world import running beside the store (world/importing.rs)

vars == <<storages, shardOf, guards, pc, shadow, ub, scope, hist, imp>>

\* No import is running.
NoImport == [at |-> "off"]

NoGuard == [mode |-> "none"]
Idle == [kind |-> "idle"]
\* A task that was never spawned.
Halted == [kind |-> "halted"]
\* shadow: nothing was ever inserted / the component was removed.
None == [src |-> "none"]
Removed == [src |-> "removed"]

\* ------------------------------------------------------------ sparse set
\* helpers::sparse_set::SparseSet: sparse index -> dense slots, swap-remove.
SparseSetNew ==
    [exists |-> TRUE, sparse |-> [e \in Entities |-> 0], dense |-> <<>>]

NoSet ==
    [exists |-> FALSE, sparse |-> [e \in Entities |-> 0], dense |-> <<>>]

SparseSetGet(s, id) == s.sparse[id]

SparseSetInsert(s, id, cell) ==
    IF s.sparse[id] # 0
    THEN [s EXCEPT !.dense[s.sparse[id]] = cell]
    ELSE [s EXCEPT !.dense = Append(s.dense, cell),
                   !.sparse[id] = Len(s.dense) + 1]

SparseSetRemove(s, id) ==
    IF s.sparse[id] = 0 THEN s
    ELSE LET idx == s.sparse[id]
             last == Len(s.dense)
             moved == s.dense[last]
         IN IF idx = last
            THEN [s EXCEPT !.dense = SubSeq(s.dense, 1, last - 1),
                           !.sparse[id] = 0]
            ELSE [s EXCEPT !.dense = [SubSeq(s.dense, 1, last - 1)
                                          EXCEPT ![idx] = moved],
                           !.sparse = [s.sparse EXCEPT ![moved.ent] = idx,
                                                       ![id] = 0]]

\* ------------------------------------------------------- tokio semaphore
\* RwLock::new(Box::new(component)): all permits free, nobody queued.
new_cell(e, v) == [ent |-> e, val |-> v, permits |-> MaxReads, queue |-> <<>>]

Need(mode) == IF mode = "write" THEN MaxReads ELSE 1

\* Semaphore::add_permits: released permits go to the queue front first;
\* what is left once the queue is empty returns to the counter.
RECURSIVE assign_permits(_, _)
assign_permits(q, k) ==
    IF q = <<>> THEN [left |-> k, queue |-> <<>>, woken |-> {}]
    ELSE IF k >= Head(q).rem
         THEN LET r == assign_permits(Tail(q), k - Head(q).rem)
              IN [r EXCEPT !.woken = r.woken \cup {Head(q).task}]
         ELSE [left |-> 0,
               queue |-> <<[Head(q) EXCEPT !.rem = Head(q).rem - k]>> \o Tail(q),
               woken |-> {}]

add_permits(cell, k) ==
    LET r == assign_permits(cell.queue, k)
    IN [cell EXCEPT !.permits = cell.permits + r.left, !.queue = r.queue]

Woken(cell, k) == assign_permits(cell.queue, k).woken

\* ------------------------------------------------------------- registry
Rec(r) == IF scope.hist THEN r ELSE hist

\* What hist holds after a step that is neither a lookup, nor a change of a
\* sparse set's shape, nor an abandoned wait.
Other == [op |-> "other"]

\* A task suspended inside get / get_mut still owns the dashmap Ref it took
\* at line 80 / 101: the shard stays read-locked across the await.
ShardReaders(s) ==
    {t \in Tasks : pc[t].kind = "get" /\ shardOf[pc[t].ty] = s}

\* entry() and get_mut() take the shard's write lock.
ShardFree(T) == ShardReaders(shardOf[T]) = {}

Has(T, e) == storages[T].exists /\ storages[T].sparse[e] # 0

Stored(T, e) == storages[T].dense[storages[T].sparse[e]].val

\* Guards whose dense slot is in locs no longer point at their own cell.
Invalidate(T, locs) ==
    [t \in Tasks |->
        IF guards[t].mode # "none" /\ guards[t].ty = T /\ guards[t].loc \in locs
        THEN [guards[t] EXCEPT !.valid = FALSE]
        ELSE guards[t]]

\* Mutant: the set is looked up with get_mut instead of entry().or_insert_with,
\* so a first insert of a type finds no set and is lost.
insert_storages_no_create(st, T, e, v) ==
    IF st[T].exists
    THEN [st EXCEPT ![T] = SparseSetInsert(st[T], e, new_cell(e, v))]
    ELSE st

\* Mutant: the map entry is overwritten with a fresh set on every insert.
insert_storages_fresh(st, T, e, v) ==
    [st EXCEPT ![T] = SparseSetInsert(SparseSetNew, e, new_cell(e, v))]

\* Mutant: the key is the TypeId of the erased Box<dyn DynamicComponent>, the
\* same for every component type.
insert_storages_one_key(st, T, e, v) ==
    LET s == IF st["Position"].exists THEN st["Position"] ELSE SparseSetNew
    IN [st EXCEPT !["Position"] = SparseSetInsert(s, e, new_cell(e, v))]

\* ComponentStorage::insert, lines 69-73.
insert_storages(st, T, e, v) ==
    LET s == IF st[T].exists THEN st[T] ELSE SparseSetNew
    IN [st EXCEPT ![T] = SparseSetInsert(s, e, new_cell(e, v))]

InsertDo(T, e, v) ==
    /\ storages' = insert_storages(storages, T, e, v)
    /\ guards' = Invalidate(T, {storages[T].sparse[e]} \ {0})
    /\ shadow' = [shadow EXCEPT ![T][e] =
                      [src |-> IF shadow[T][e] = Removed THEN "reinsert" ELSE "insert",
                       val |-> v]]
    /\ hist' = Rec([op |-> IF Has(T, e) THEN "overwrite" ELSE "insert",
                    ty |-> T, ent |-> e])

\* Mutant: the type's whole entry is removed from the map, not the entity's slot.
remove_storages_whole(st, T, e) == [st EXCEPT ![T] = NoSet]

\* Mutant: the last dense slot is moved into the freed one, but the moved
\* entity's sparse index still names the old place.
remove_storages_no_fixup(st, T, e) ==
    IF st[T].exists /\ st[T].sparse[e] # 0
    THEN LET idx == st[T].sparse[e]
             last == Len(st[T].dense)
             rest == SubSeq(st[T].dense, 1, last - 1)
         IN [st EXCEPT ![T].dense = IF idx = last THEN rest
                                    ELSE [rest EXCEPT ![idx] = st[T].dense[last]],
                       ![T].sparse[e] = 0]
    ELSE st

\* Mutant: a set that the remove leaves empty is taken out of the map.
remove_storages_drop_empty(st, T, e) ==
    IF st[T].exists
    THEN LET s == SparseSetRemove(st[T], e)
         IN [st EXCEPT ![T] = IF s.dense = <<>> THEN NoSet ELSE s]
    ELSE st

\* ComponentStorage::remove, lines 116-122.
remove_storages(st, T, e) ==
    IF st[T].exists THEN [st EXCEPT ![T] = SparseSetRemove(st[T], e)] ELSE st

RemoveDo(T, e) ==
    /\ storages' = remove_storages(storages, T, e)
    /\ guards' = Invalidate(T, IF Has(T, e)
                               THEN {storages[T].sparse[e], Len(storages[T].dense)}
                               ELSE {})
    /\ shadow' = [shadow EXCEPT ![T][e] = Removed]
    /\ hist' = Rec([op |-> IF Has(T, e) THEN "remove" ELSE "remove_noop",
                    ty |-> T, ent |-> e])

insert(t, T, e, v) ==
    /\ ~ub
    /\ pc[t] = Idle
    /\ IF ShardFree(T)
       THEN InsertDo(T, e, v) /\ UNCHANGED pc
       ELSE /\ pc' = [pc EXCEPT ![t] = [kind |-> "insert", ty |-> T,
                                        ent |-> e, val |-> v]]
            /\ hist' = Rec(Other)
            /\ UNCHANGED <<storages, guards, shadow>>
    /\ UNCHANGED <<imp, shardOf, ub, scope>>

remove(t, T, e) ==
    /\ ~ub
    /\ pc[t] = Idle
    /\ IF ShardFree(T)
       THEN RemoveDo(T, e) /\ UNCHANGED pc
       ELSE /\ pc' = [pc EXCEPT ![t] = [kind |-> "remove", ty |-> T, ent |-> e]]
            /\ hist' = Rec(Other)
            /\ UNCHANGED <<storages, guards, shadow>>
    /\ UNCHANGED <<imp, shardOf, ub, scope>>

\* A thread parked on the shard lock goes on once the shard is free.
resume(t) ==
    /\ ~ub
    /\ pc[t].kind \in {"insert", "remove"}
    /\ ShardFree(pc[t].ty)
    /\ IF pc[t].kind = "insert"
       THEN InsertDo(pc[t].ty, pc[t].ent, pc[t].val)
       ELSE RemoveDo(pc[t].ty, pc[t].ent)
    /\ pc' = [pc EXCEPT ![t] = Idle]
    /\ UNCHANGED <<imp, shardOf, ub, scope>>

\* ------------------------------------------------------- get and get_mut
\* Mutant: entry(type_id).or_default() instead of get(&type_id).
storages_entry(st, T) ==
    IF st[T].exists THEN st ELSE [st EXCEPT ![T] = SparseSetNew]

\* self.storages.get(&type_id): a lookup, the map is left as it is.
storages_get(st, T) == st

\* Lines 80-81 / 101-102: the dense slot of the entity's cell, 0 for absent.
lookup(st, T, e) == IF st[T].exists THEN SparseSetGet(st[T], e) ELSE 0

mk_guard(mode, T, e, loc) ==
    [mode |-> mode, ty |-> T, ent |-> e, loc |-> loc, valid |-> TRUE]

acquire(t, T, e, mode) ==
    LET st == storages_get(storages, T)
        loc == lookup(st, T, e)
    IN
    /\ pc[t] = Idle
    /\ guards[t] = NoGuard
    /\ IF loc = 0
       THEN \* the ? operator: None is returned, the Ref is dropped
            /\ storages' = st
            /\ hist' = Rec([op |-> "absent", ty |-> T, ent |-> e])
            /\ UNCHANGED <<guards, pc>>
       ELSE LET cell == st[T].dense[loc] IN
            IF cell.permits >= Need(mode)
            THEN \* the lock is free: the first poll of read()/write() takes it
                 /\ storages' = [st EXCEPT ![T].dense[loc].permits =
                                               cell.permits - Need(mode)]
                 /\ guards' = [guards EXCEPT ![t] = mk_guard(mode, T, e, loc)]
                 /\ hist' = Rec([op |-> "guard", ty |-> T, ent |-> e])
                 /\ UNCHANGED pc
            ELSE \* queue up behind the holders, keeping what is free
                 /\ storages' = [st EXCEPT
                        ![T].dense[loc].permits = 0,
                        ![T].dense[loc].queue = Append(cell.queue,
                            [task |-> t, rem |-> Need(mode) - cell.permits])]
                 /\ pc' = [pc EXCEPT ![t] = [kind |-> "get", ty |-> T, ent |-> e,
                                             loc |-> loc, mode |-> mode,
                                             granted |-> FALSE]]
                 /\ hist' = Rec(Other)
                 /\ UNCHANGED guards
    /\ UNCHANGED <<imp, shardOf, shadow, ub, scope>>

get(t, T, e) == acquire(t, T, e, "read")

get_mut(t, T, e) == acquire(t, T, e, "write")

\* The woken future is polled again: it returns the guard and drops the Ref.
poll(t) ==
    /\ pc[t].kind = "get"
    /\ pc[t].granted
    /\ guards' = [guards EXCEPT ![t] =
                      mk_guard(pc[t].mode, pc[t].ty, pc[t].ent, pc[t].loc)]
    /\ pc' = [pc EXCEPT ![t] = Idle]
    /\ hist' = Rec([op |-> "guard", ty |-> pc[t].ty, ent |-> pc[t].ent])
    /\ UNCHANGED <<imp, storages, shardOf, shadow, ub, scope>>

\* Permits k go back to the lock in slot loc of T's set; waiters they satisfy
\* are marked granted.
ReleaseAt(T, loc, k) ==
    LET cell == storages[T].dense[loc] IN
    /\ storages' = [storages EXCEPT ![T].dense[loc] = add_permits(cell, k)]
    /\ pc' = [u \in Tasks |->
                 IF u \in Woken(cell, k) THEN [pc[u] EXCEPT !.granted = TRUE]
                 ELSE pc[u]]

RemoveWaiter(q, t) == SelectSeq(q, LAMBDA w : w.task # t)

Remaining(q, t) ==
    LET S == {i \in 1..Len(q) : q[i].task = t}
    IN IF S = {} THEN 0 ELSE q[CHOOSE i \in S : TRUE].rem

\* Mutant: the abandoned waiter leaves the queue but keeps the permits it had
\* collected.
cancel_keep_permits(t) ==
    /\ ~ub
    /\ pc[t].kind = "get"
    /\ LET T == pc[t].ty
           loc == pc[t].loc
           cell == storages[T].dense[loc]
       IN /\ storages' = [storages EXCEPT ![T].dense[loc].queue =
                                              RemoveWaiter(cell.queue, t)]
          /\ pc' = [pc EXCEPT ![t] = Idle]
          /\ hist' = Rec([op |-> "cancel", ty |-> T, ent |-> pc[t].ent])
    /\ UNCHANGED <<imp, shardOf, guards, shadow, ub, scope>>

\* The future of get / get_mut is dropped before it completes: tokio's
\* Acquire leaves the queue and gives back what it had collected; the Ref
\* goes with it.
cancel(t) ==
    /\ ~ub
    /\ pc[t].kind = "get"
    /\ LET T == pc[t].ty
           loc == pc[t].loc
           cell == storages[T].dense[loc]
           had == Need(pc[t].mode) - Remaining(cell.queue, t)
           left == [cell EXCEPT !.queue = RemoveWaiter(cell.queue, t)]
       IN /\ storages' = [storages EXCEPT ![T].dense[loc] = add_permits(left, had)]
          /\ pc' = [u \in Tasks |->
                       IF u = t THEN Idle
                       ELSE IF u \in Woken(left, had)
                            THEN [pc[u] EXCEPT !.granted = TRUE]
                            ELSE pc[u]]
          /\ hist' = Rec([op |-> "cancel", ty |-> T, ent |-> pc[t].ent])
    /\ UNCHANGED <<imp, shardOf, guards, shadow, ub, scope>>

\* --------------------------------------------------------------- guards
Live(g) == g.loc <= Len(storages[g.ty].dense)

\* impl Deref for ComponentRef / ComponentRefMut, lines 31-44: the value the
\* guard's pointer reaches.
deref(st, g) == st[g.ty].dense[g.loc].val

\* impl DerefMut for ComponentRefMut, lines 45-49: a field is assigned
\* through the guard's pointer.
deref_mut(t, w) ==
    LET g == guards[t] IN
    /\ ~ub
    /\ pc[t] = Idle
    /\ g.mode = "write"
    /\ hist' = Rec(Other)
    /\ IF g.valid
       THEN /\ storages' = [storages EXCEPT ![g.ty].dense[g.loc].val = w]
            /\ shadow' = [shadow EXCEPT ![g.ty][g.ent] =
                                            [src |-> "write", val |-> w]]
            /\ UNCHANGED ub
       ELSE /\ \/ UNCHANGED <<storages, ub>>
               \/ /\ Live(g)
                  /\ storages' = [storages EXCEPT ![g.ty].dense[g.loc].val = w]
                  /\ ub' = TRUE
            /\ UNCHANGED shadow
    /\ UNCHANGED <<imp, shardOf, guards, pc, scope>>

\* The guard goes out of scope: the tokio guard's Drop releases the permits
\* on the semaphore it points to.
drop(t) ==
    LET g == guards[t] IN
    /\ ~ub
    /\ pc[t] = Idle
    /\ g.mode # "none"
    /\ guards' = [guards EXCEPT ![t] = NoGuard]
    /\ hist' = Rec(Other)
    /\ IF g.valid
       THEN ReleaseAt(g.ty, g.loc, Need(g.mode)) /\ UNCHANGED ub
       ELSE \/ UNCHANGED <<storages, pc, ub>>
            \/ Live(g) /\ ReleaseAt(g.ty, g.loc, Need(g.mode)) /\ ub' = TRUE
    /\ UNCHANGED <<imp, shardOf, shadow, scope>>

\* ------------------------------------------------------- specifications
\* Once a stale guard has hit a live cell the program has left defined
\* behaviour.  The effect is kept in the state, and from there the model
\* only follows what get and get_mut then return (every other action is
\* guarded by ~ub).
InitCommon ==
    /\ storages = [T \in Types |-> NoSet]
    /\ guards = [t \in Tasks |-> NoGuard]
    /\ shadow = [T \in Types |-> [e \in Entities |-> None]]
    /\ shardOf = [T \in Types |-> 1]
    /\ ub = FALSE
    /\ imp = NoImport

\* ComponentStorage::new, shared by concurrently running systems.
Init ==
    /\ InitCommon
    /\ pc = [t \in Tasks |-> Idle]
    /\ scope = [types |-> {"Position"}, hist |-> FALSE]
    /\ hist = [op |-> "off"]

\* ComponentStorage::new, used by one system; the last operation is recorded.
InitSeq ==
    /\ InitCommon
    /\ pc = [t \in Tasks |-> IF t = 1 THEN Idle ELSE Halted]
    /\ scope = [types |-> {"Position"}, hist |-> TRUE]
    /\ hist = [op |-> "new"]

Next ==
    \E t \in Tasks :
        \/ \E T \in scope.types, e \in Entities :
              \/ \E v \in Values : insert(t, T, e, v)
              \/ remove(t, T, e)
              \/ get(t, T, e)
              \/ get_mut(t, T, e)
        \/ resume(t)
        \/ poll(t)
        \/ cancel(t)
        \/ \E w \in Values : deref_mut(t, w)
        \/ drop(t)

\* One system on its own never waits: nothing is suspended, parked or cancelled.
NextSeq ==
    \E t \in Tasks :
        \/ \E T \in scope.types, e \in Entities :
              \/ \E v \in Values : insert(t, T, e, v)
              \/ remove(t, T, e)
              \/ get(t, T, e)
              \/ get_mut(t, T, e)
        \/ \E w \in Values : deref_mut(t, w)
        \/ drop(t)

\* ComponentStorage::new, shared by concurrently running systems that use
\* both component types, each for the entity of the tests.  Where DashMap's
\* hasher puts the two TypeIds is not the program's choice.
InitTypes ==
    /\ storages = [T \in Types |-> NoSet]
    /\ guards = [t \in Tasks |-> NoGuard]
    /\ shadow = [T \in Types |-> [e \in Entities |-> None]]
    /\ shardOf \in [Types -> Shards]
    /\ ub = FALSE
    /\ imp = NoImport
    /\ pc = [t \in Tasks |-> Idle]
    /\ scope = [types |-> Types, hist |-> FALSE]
    /\ hist = [op |-> "off"]

NextTypes ==
    \E t \in Tasks :
        \/ \E T \in scope.types :
              \/ \E v \in ValuesOf(T) : insert(t, T, TestEntity, v)
              \/ remove(t, T, TestEntity)
              \/ get(t, T, TestEntity)
              \/ get_mut(t, T, TestEntity)
        \/ resume(t)
        \/ poll(t)
        \/ cancel(t)
        \/ \E w \in Values \cup Velocities :
              /\ guards[t].mode = "write"
              /\ TypeOf(w) = guards[t].ty
              /\ deref_mut(t, w)
        \/ drop(t)

Spec == Init /\ [][Next]_vars

SpecTypes == InitTypes /\ [][NextTypes]_vars

\* Systems sharing the cell of one entity, which is inserted and overwritten
\* but never removed.
NextLock ==
    \E t \in Tasks :
        \/ \E T \in scope.types :
              \/ \E v \in ValuesOf(T) : insert(t, T, TestEntity, v)
              \/ get(t, T, TestEntity)
              \/ get_mut(t, T, TestEntity)
        \/ resume(t)
        \/ poll(t)
        \/ cancel(t)
        \/ \E w \in Values : deref_mut(t, w)
        \/ drop(t)

\* tokio polls a woken future again, a thread parked on a free shard lock
\* gets it, and a system that holds a guard lets go of it in the end.
\* Nothing promises that a waiting future is ever abandoned.
FairLock ==
    \A t \in Tasks :
        /\ WF_vars(poll(t))
        /\ WF_vars(resume(t))
        /\ WF_vars(drop(t))

\* ComponentStorage::new, shared by concurrently running systems; the last
\* operation is recorded.
InitLock ==
    /\ InitCommon
    /\ pc = [t \in Tasks |-> Idle]
    /\ scope = [types |-> {"Position"}, hist |-> TRUE]
    /\ hist = [op |-> "new"]

SpecLock == InitLock /\ [][NextLock]_vars /\ FairLock

SpecSeq == InitSeq /\ [][NextSeq]_vars

\* ----------------------------------------------------------- world import
\* world/importing.rs: import_regions reads the region files of the import
\* directory one after the other and hands each region's chunks to the
\* database in batches.
DEFAULT_BATCH_SIZE == 150

\* The --batch_size= argument: missing or not an i32, or the i32 it parses to.
BatchArgs ==
    {[given |-> FALSE]} \cup {[given |-> TRUE, size |-> n] : n \in -1..2}

\* get_batch_size, lines 18-38.
get_batch_size(arg) == IF arg.given THEN arg.size ELSE DEFAULT_BATCH_SIZE

\* std::cmp::min(batch_size, chunks.len()) with batch_size = the i32 cast to
\* usize (line 105): the cast wraps a negative size to a number above every
\* Vec length, 0 and the positive sizes stay what they are.
drain_len(batch_size, len) ==
    IF batch_size < 0 THEN len
    ELSE IF batch_size < len THEN batch_size ELSE len

\* A chunk of a region file: it may fail to read (chunk.ok(), line 118) or to
\* convert (process_chunk, lines 76-91).
ChunkKinds == {"ok", "unreadable", "bad"}

RegionShapes == UNION {[1..n -> ChunkKinds] : n \in 0..MaxChunks}

\* Region number r of the directory, its chunks named by region and place.
region_chunks(r, shape) ==
    [i \in 1..Len(shape) |-> [reg |-> r, idx |-> i, kind |-> shape[i]]]

Directories ==
    UNION {[1..n -> RegionShapes] : n \in 0..MaxRegions}

\* Line 118: region.iter().filter_map(|chunk| chunk.ok()).collect().
readable(cs) == SelectSeq(cs, LAMBDA c : c.kind # "unreadable")

\* Lines 125-140: the chunks process_chunk fails on are skipped with a warning.
processed(cs) == SelectSeq(cs, LAMBDA c : c.kind = "ok")

storeVars == <<storages, shardOf, guards, pc, shadow, ub, scope, hist>>

\* Line 112: the next directory entry is opened as a region; after the last
\* one the import is finalized.  File::open and Region::from_stream can fail.
next_entry ==
    /\ imp.at = "entry"
    /\ IF imp.next > Len(imp.dir)
       THEN imp' = [imp EXCEPT !.at = "done"]
       ELSE \/ imp' = [imp EXCEPT !.at = "err"]
            \/ imp' = [imp EXCEPT
                          !.at = "loop",
                          !.chunks = readable(region_chunks(imp.next,
                                                            imp.dir[imp.next])),
                          !.next = imp.next + 1]
    /\ UNCHANGED storeVars

\* Lines 121-122: while !chunks.is_empty(), drain the next batch.
drain ==
    /\ imp.at = "loop"
    /\ IF imp.chunks = <<>>
       THEN imp' = [imp EXCEPT !.at = "entry"]
       ELSE LET n == drain_len(imp.batch_size, Len(imp.chunks))
            IN imp' = [imp EXCEPT
                          !.at = "process",
                          !.batch = SubSeq(imp.chunks, 1, n),
                          !.chunks = SubSeq(imp.chunks, n + 1, Len(imp.chunks))]
    /\ UNCHANGED storeVars

\* Lines 125-140.
process_chunks ==
    /\ imp.at = "process"
    /\ imp' = [imp EXCEPT !.at = "insert", !.batch = processed(imp.batch)]
    /\ UNCHANGED storeVars

\* Line 146 and insert_chunks, lines 200-207: the batch goes to the database,
\* or the import ends with the error.
insert_chunks(ok) ==
    /\ imp.at = "insert"
    /\ imp' = IF ok
              THEN [imp EXCEPT !.at = "loop",
                               !.stored = imp.stored \o imp.batch,
                               !.batch = <<>>]
              ELSE [imp EXCEPT !.at = "err"]
    /\ UNCHANGED storeVars

\* import_regions is called with a store nobody else uses meanwhile.
InitImport ==
    /\ storages = [T \in Types |-> NoSet]
    /\ guards = [t \in Tasks |-> NoGuard]
    /\ shadow = [T \in Types |-> [e \in Entities |-> None]]
    /\ shardOf = [T \in Types |-> 1]
    /\ ub = FALSE
    /\ pc = [t \in Tasks |-> Halted]
    /\ scope = [types |-> {}, hist |-> FALSE]
    /\ hist = [op |-> "off"]
    /\ \E arg \in BatchArgs, dir \in Directories :
           imp = [at |-> "entry", batch_size |-> get_batch_size(arg),
                  dir |-> dir, next |-> 1,
                  chunks |-> <<>>, batch |-> <<>>, stored |-> <<>>]

NextImport ==
    \/ next_entry
    \/ drain
    \/ process_chunks
    \/ \E ok \in BOOLEAN : insert_chunks(ok)

SpecImport == InitImport /\ [][NextImport]_vars

\* ---------------------------------------------------------------- claims
Present(T, e) == shadow[T][e].src \in {"insert", "reinsert", "write"}

\* The tasks holding a guard that get / get_mut returned for (T, e).
HeldBy(T, e) ==
    {t \in Tasks : guards[t].mode # "none" /\ guards[t].ty = T /\ guards[t].ent = e}

\* The guards on (T, e) that still point at the cell they were taken from.
ValidOn(T, e) == {t \in HeldBy(T, e) : guards[t].valid}

Slots(T, e) ==
    {i \in 1..Len(storages[T].dense) : storages[T].dense[i].ent = e}

\* C1: every (type, entity) cell is held by any number of read guards or by
\* exactly one write guard, never by a write guard together with another guard.
C1_ReadersXorWriter ==
    \A T \in Types, e \in Entities :
        (\E t \in HeldBy(T, e) : guards[t].mode = "write")
            => Cardinality(HeldBy(T, e)) = 1

\* C2: no live guard refers to a cell that has been removed, replaced by an
\* overwriting insert, or moved by swap-remove.
C2_NoGuardOutlivesCell ==
    \A t \in Tasks : guards[t].mode # "none" => guards[t].valid

\* C3: after insert(e, v), with no insert, remove or write of (T, e) since, get
\* and get_mut find the cell and the guard they return views v.
C3_RoundTrip ==
    \A T \in Types, e \in Entities :
        shadow[T][e].src \in {"insert", "reinsert"}
            => /\ lookup(storages, T, e) # 0
               /\ \A t \in ValidOn(T, e) :
                      deref(storages, guards[t]) = shadow[T][e].val

\* C4: after remove(e) get(e) finds nothing; after a following insert(e, v2)
\* the guard get returns views v2.
C4_RemoveThenReinsert ==
    \A T \in Types, e \in Entities :
        /\ shadow[T][e] = Removed => lookup(storages, T, e) = 0
        /\ shadow[T][e].src = "reinsert"
               => /\ lookup(storages, T, e) # 0
                  /\ \A t \in ValidOn(T, e) :
                         deref(storages, guards[t]) = shadow[T][e].val

\* C5: an insert or a remove of type T for entity e1 leaves the presence and
\* the stored value of T for every other entity e2 as they were.
C5_EntityIsolation ==
    [][\A T \in Types, e1 \in Entities, e2 \in Entities :
          (/\ e1 # e2
           /\ hist'.op \in {"insert", "overwrite", "remove"}
           /\ hist'.ty = T
           /\ hist'.ent = e1)
          => /\ Has(T, e2)' = Has(T, e2)
             /\ Has(T, e2) => Stored(T, e2)' = Stored(T, e2)]_vars

\* The spec's scenario: insert 0, insert 5 (here entity 1), remove 0.
C5_Witness ==
    /\ hist.op = "remove"
    /\ hist.ent = 0
    /\ ~Has("Position", 0)
    /\ Has("Position", 1)
    /\ Stored("Position", 1) = "p5"

\* C6: the value written through a write guard of (T, e) is what every guard
\* on (T, e) views until the next write, insert or remove of (T, e).
C6_MutationVisible ==
    \A T \in Types, e \in Entities :
        shadow[T][e].src = "write"
            => \A t \in ValidOn(T, e) :
                   deref(storages, guards[t]) = shadow[T][e].val

\* C7: an entity has a slot in T's sparse set exactly when insert was called
\* for it with no remove since, and it never has more than one slot.
C7_SlotIffInserted ==
    \A T \in Types, e \in Entities :
        /\ Has(T, e) <=> Present(T, e)
        /\ Cardinality(Slots(T, e)) = IF Present(T, e) THEN 1 ELSE 0

\* Entity 0 was removed and inserted again, entity 1 was removed.
C7_Witness ==
    /\ shadow["Position"][0].src = "reinsert"
    /\ Has("Position", 0)
    /\ shadow["Position"][1] = Removed
    /\ ~Has("Position", 1)
    /\ hist.op = "insert"
    /\ hist.ent = 0

\* C8: get and get_mut return absent exactly when the type has no sparse set
\* or the entity no slot in it, and then they take no lock and leave the
\* registry as it was.
C8_AbsentGetIsPure ==
    [][/\ hist'.op = "absent"
          => /\ ~Has(hist'.ty, hist'.ent)
             /\ storages' = storages
             /\ guards' = guards
             /\ pc' = pc
       /\ hist'.op = "guard" => Has(hist'.ty, hist'.ent)]_vars

C8_Witness ==
    /\ hist.op = "absent"
    /\ storages[hist.ty].exists
    /\ shadow[hist.ty][hist.ent] = Removed

\* C9: remove of an entity that has no slot changes no sparse set, no slot
\* and no guard; the only task whose position changes is a caller that was
\* parked in remove and returns.
C9_RemoveAbsentNoop ==
    [][hist'.op = "remove_noop"
          => /\ storages' = storages
             /\ guards' = guards
             /\ \A u \in Tasks :
                    \/ pc'[u] = pc[u]
                    \/ pc[u].kind = "remove" /\ pc'[u] = Idle]_vars

\* A second remove in a row, with another entity's slot in the same set.
C9_Witness ==
    /\ hist.op = "remove_noop"
    /\ shadow[hist.ty][hist.ent] = Removed
    /\ \E e \in Entities : Has(hist.ty, e)

\* C10: an insert or remove of (T, e2) is never parked while another task is
\* suspended waiting for the value lock of (T, e1), e1 # e2.
C10_NoCrossEntityBlocking ==
    \A t \in Tasks, u \in Tasks :
        ~ /\ pc[t].kind \in {"insert", "remove"}
          /\ pc[u].kind = "get"
          /\ ~pc[u].granted
          /\ pc[u].ty = pc[t].ty
          /\ pc[u].ent # pc[t].ent
          /\ u \in ShardReaders(shardOf[pc[t].ty])

\* C11: an insert or remove for type A is never parked while the only thing
\* in its way is a task suspended in get / get_mut for another type B.
C11_TypeIsolation ==
    \A t \in Tasks, u \in Tasks :
        ~ /\ pc[t].kind \in {"insert", "remove"}
          /\ pc[u].kind = "get"
          /\ pc[u].ty # pc[t].ty
          /\ u \in ShardReaders(shardOf[pc[t].ty])

\* C12: a guard is handed out only when no other task holds a conflicting
\* guard on the same cell (two writers get theirs one after the other, a
\* reader gets none while a writer holds the cell), and a suspended get or
\* get_mut does not stay suspended forever.
C12_WriterExclusionOrder ==
    /\ [][\A t \in Tasks :
             (guards[t] = NoGuard /\ guards'[t] # NoGuard)
                 => \A u \in Tasks \ {t} :
                        (/\ guards'[u].mode # "none"
                         /\ guards'[u].ty = guards'[t].ty
                         /\ guards'[u].ent = guards'[t].ent)
                            => /\ guards'[u].mode = "read"
                               /\ guards'[t].mode = "read"]_vars
    /\ \A t \in Tasks : (pc[t].kind = "get") ~> (pc[t].kind # "get")

RECURSIVE SumOver(_, _)
SumOver(f, S) ==
    IF S = {} THEN 0
    ELSE LET x == CHOOSE x \in S : TRUE IN f[x] + SumOver(f, S \ {x})

\* The permits of the lock in slot i of T's set that guards hold.
HeldAt(T, i) ==
    SumOver([t \in Tasks |-> Need(guards[t].mode)],
            {t \in Tasks : /\ guards[t].mode # "none"
                           /\ guards[t].valid
                           /\ guards[t].ty = T
                           /\ guards[t].loc = i})

\* The permits of that lock that suspended calls have collected so far.
CollectedAt(T, i) ==
    LET q == storages[T].dense[i].queue
    IN SumOver([t \in Tasks |->
                   IF pc[t].kind = "get"
                   THEN IF pc[t].granted THEN Need(pc[t].mode)
                        ELSE Need(pc[t].mode) - Remaining(q, t)
                   ELSE 0],
               {t \in Tasks : /\ pc[t].kind = "get"
                              /\ pc[t].ty = T
                              /\ pc[t].loc = i})

\* C13: every permit of every lock is either free or held by exactly one
\* guard or suspended call: a guard's drop gives back what the guard took,
\* once, so a lock is never released more often than it was acquired and is
\* fully unlocked when nothing holds it.
C13_ReleasedExactlyOnce ==
    \A T \in Types :
        \A i \in 1..Len(storages[T].dense) :
            storages[T].dense[i].permits + HeldAt(T, i) + CollectedAt(T, i)
                = MaxReads

\* C14: when a get or get_mut that is still waiting is abandoned, no guard
\* appears or disappears, the caller is left in no queue and holds no access
\* to the map, and the permits not held by guards are as many as before.
C14_CancelBeforeAcquire ==
    [][\A t \in Tasks, T \in Types, i \in 1..(MaxEntity + 1) :
          (/\ pc[t].kind = "get"
           /\ ~pc[t].granted
           /\ pc[t].ty = T
           /\ pc[t].loc = i
           /\ pc'[t].kind # "get")
              => /\ guards' = guards
                 /\ pc'[t] = Idle
                 /\ \A U \in Types : t \notin ShardReaders(shardOf[U])'
                 /\ RemoveWaiter(storages'[T].dense[i].queue, t)
                        = storages'[T].dense[i].queue
                 /\ storages'[T].dense[i].permits + CollectedAt(T, i)'
                        = storages[T].dense[i].permits + CollectedAt(T, i)]_vars

\* A writer that had queued behind a reader and taken the free permits has
\* abandoned its wait: the reader still holds its guard, every other permit
\* is free again.
C14_Witness ==
    \E t \in Tasks :
        /\ hist.op = "cancel"
        /\ guards[t].mode = "read" /\ guards[t].valid
        /\ guards[t].ty = hist.ty /\ guards[t].ent = hist.ent
        /\ \A u \in Tasks \ {t} : guards[u] = NoGuard /\ pc[u] = Idle
        /\ storages[guards[t].ty].dense[guards[t].loc].queue = <<>>
        /\ storages[guards[t].ty].dense[guards[t].loc].permits = MaxReads - 1

\* C16: no insert or remove of (T, e) is parked while a guard is held on
\* (T, e) and a call waiting for that guard's lock is what keeps the map.
C16_NoWaitForCellLock ==
    \A t \in Tasks, w \in Tasks :
        ~ /\ pc[t].kind \in {"insert", "remove"}
          /\ pc[w].kind = "get"
          /\ ~pc[w].granted
          /\ pc[w].ty = pc[t].ty
          /\ pc[w].ent = pc[t].ent
          /\ ValidOn(pc[t].ty, pc[t].ent) # {}
          /\ w \in ShardReaders(shardOf[pc[t].ty])

\* C15: the registry holds one sparse set per type at most; a type's set
\* comes into being only in a step that inserts its first cell, which leaves
\* every other type's set as it was; a set that exists stays, also when a
\* remove empties it; and tasks parked in insert are never stuck on one
\* another: when nothing but parked inserts is left, the shard of one of
\* them is free.
C15_OneSetPerType ==
    [][/\ \A T \in Types :
              /\ storages[T].exists => storages'[T].exists
              /\ (~storages[T].exists /\ storages'[T].exists)
                     => /\ Len(storages'[T].dense) = 1
                        /\ \A U \in Types \ {T} : storages'[U] = storages[U]
       /\ ((\A t \in Tasks : pc[t].kind \in {"idle", "insert"})
               /\ (\E t \in Tasks : pc[t].kind = "insert"))
              => \E t \in Tasks : pc[t].kind = "insert" /\ ShardFree(pc[t].ty)]_vars

\* Both sets were created, and the remove of its only entity left Position's
\* set empty.
C15_Witness ==
    /\ storages["Position"].exists
    /\ storages["Position"].dense = <<>>
    /\ shadow["Position"][TestEntity] = Removed
    /\ Has("Velocity", TestEntity)

\* C17: every cell of the set registered under T holds a value of type T, and
\* the cell a guard for T reaches holds a value of type T.
C17_TypeMatch ==
    /\ \A T \in Types :
           \A i \in 1..Len(storages[T].dense) :
               TypeOf(storages[T].dense[i].val) = T
    /\ \A t \in Tasks :
           (guards[t].mode # "none" /\ Live(guards[t]))
               => TypeOf(deref(storages, guards[t])) = guards[t].ty

\* The two tasks hold write guards of the two types for the same entity, and
\* each has written through its guard.
C17_Witness ==
    \E t \in Tasks, u \in Tasks :
        /\ guards[t].mode = "write" /\ guards[t].ty = "Position" /\ guards[t].valid
        /\ guards[u].mode = "write" /\ guards[u].ty = "Velocity" /\ guards[u].valid
        /\ shadow["Position"][TestEntity] = [src |-> "write", val |-> "p5"]
        /\ shadow["Velocity"][TestEntity] = [src |-> "write", val |-> "v3"]
        /\ deref(storages, guards[t]) = "p5"
        /\ deref(storages, guards[u]) = "v3"

\* C18: after every step each set's dense array has one slot per present id
\* and no other, each present id's sparse index names the slot holding its
\* own cell, and a remove leaves every other id of the set with the value it
\* had, also the id whose cell was moved into the freed slot.
C18_SwapRemoveConsistent ==
    [][/\ \A T \in Types :
              /\ Len(storages'[T].dense)
                     = Cardinality({e \in Entities : storages'[T].sparse[e] # 0})
              /\ \A e \in Entities :
                     storages'[T].sparse[e] # 0
                         => /\ storages'[T].sparse[e] \in 1..Len(storages'[T].dense)
                            /\ storages'[T].dense[storages'[T].sparse[e]].ent = e
              /\ \A i \in 1..Len(storages'[T].dense) :
                     storages'[T].sparse[storages'[T].dense[i].ent] = i
       /\ \A T \in Types, e2 \in Entities :
              (/\ hist'.op = "remove"
               /\ hist'.ty = T
               /\ hist'.ent # e2
               /\ Has(T, e2))
                  => Has(T, e2)' /\ Stored(T, e2)' = Stored(T, e2)]_vars

\* Entity 0 was removed from slot 1 and entity 1's cell was moved there from
\* slot 2, where a guard taken before the remove still points.
C18_Witness ==
    /\ hist.op = "remove"
    /\ hist.ent = 0
    /\ storages["Position"].sparse[1] = 1
    /\ Len(storages["Position"].dense) = 1
    /\ \E t \in Tasks :
           /\ guards[t].mode # "none"
           /\ guards[t].ent = 1
           /\ guards[t].loc = 2
    /\ Stored("Position", 1) = "p5"

\* C20: every pass of the batching loop takes at least one chunk and at most
\* batch_size chunks (the usize of line 105, which for a negative argument is
\* above every length) off the front of the region's readable chunks, so the
\* loop ends and each chunk is in one batch, in order; a batch is stored
\* before the next is drained, and after a failed insert nothing more is
\* stored.
C20_BatchLoopTerminates ==
    [][/\ (imp.at = "loop" /\ imp'.at = "process")
              => /\ Len(imp'.chunks) < Len(imp.chunks)
                 /\ imp.batch_size >= 0 => Len(imp'.batch) <= imp.batch_size
                 /\ imp'.batch \o imp'.chunks = imp.chunks
                 /\ imp.batch = <<>>
       /\ imp.at = "err" => imp'.stored = imp.stored]_vars

\* C19: no task that holds a guard on (T, e1) is parked in insert or remove
\* on T's map while a task that keeps the map is suspended waiting for the
\* lock of (T, e1).
C19_NoDeadlock ==
    \A t \in Tasks, w \in Tasks :
        ~ /\ pc[t].kind \in {"insert", "remove"}
          /\ guards[t].mode # "none"
          /\ guards[t].valid
          /\ pc[w].kind = "get"
          /\ ~pc[w].granted
          /\ pc[w].ty = guards[t].ty
          /\ pc[w].ent = guards[t].ent
          /\ shardOf[pc[t].ty] = shardOf[pc[w].ty]
====
